---- MODULE Spec2Model ----
(***************************************************************************)
(* A model of the retrieval pipeline of NLP_class_RAG:                     *)
(*   - VectorSearchEngine (rag_retrieve.py): corpus loader, index builder, *)
(*     incremental insert and top-k query;                                 *)
(*   - NounSearchEngine (noun_search.py): inverted noun index and search;  *)
(*   - process_pdf (data_preprocess.py): per-page extraction loop.         *)
(*                                                                         *)
(* Python values are represented as follows.                               *)
(*   str            a tuple of one-character strings, <<"a", " ">>         *)
(*   Optional[T]    a tuple of length 0 (None) or 1 (<<x>>)                *)
(*   dict           a record; a key that is absent is not in its DOMAIN    *)
(*   list           a sequence (0-based positions are written pos+1)       *)
(***************************************************************************)
EXTENDS Integers, Sequences, FiniteSets, TLC

VARIABLES
    \* VectorSearchEngine
    documents,      \* self.documents: list of texts
    document_ids,   \* self.document_ids: list of Optional[int]
    urls,           \* self.urls: list of url strings
    index,          \* self.index: None, or the list of vectors stored in it
    last,           \* the last call on the engine: operation, argument, outcome
    \* _load_and_filter_documents, as a function of its input file
    data,           \* the JSON array read from json_path
    loaded,         \* None, or the triple (documents, ids, urls) it returned
    \* NounSearchEngine
    corpus,         \* the JSON array the engine was constructed from
    ndocs,          \* self.documents: doc_id -> content
    inverted_index, \* self.inverted_index: noun -> set of doc_id
    nlast,          \* the last search: query, top_k, results
    \* process_pdf
    pages,          \* per page of the PDF, what inference and parsing produce
    page_num,       \* number of pages already processed
    all_data,       \* all_data
    global_idx,     \* global_idx
    written         \* None, or the array dumped to the output file

vseVars  == <<documents, document_ids, urls, index, last>>
loadVars == <<data, loaded>>
nounVars == <<corpus, ndocs, inverted_index, nlast>>
pdfVars  == <<pages, page_num, all_data, global_idx, written>>
vars     == <<vseVars, loadVars, nounVars, pdfVars>>

----------------------------------------------------------------------------
(* Python helpers *)

None == <<>>
Some(x) == <<x>>

\* position sets and list helpers
Pos(s) == 1..Len(s)
Elems(s) == {s[i] : i \in Pos(s)}
SeqsUpTo(S, n) == UNION {[1..m -> S] : m \in 0..n}
NoDup(s) == \A i, j \in Pos(s) : i # j => s[i] # s[j]

\* x in list
InList(x, s) == \E i \in Pos(s) : s[i] = x

\* str.strip(): drop leading and trailing whitespace
Whitespace == {" "}

RECURSIVE LStrip(_)
LStrip(s) ==
    IF s # <<>> /\ Head(s) \in Whitespace THEN LStrip(Tail(s)) ELSE s

RECURSIVE RStrip(_)
RStrip(s) ==
    IF s # <<>> /\ s[Len(s)] \in Whitespace
    THEN RStrip(SubSeq(s, 1, Len(s) - 1))
    ELSE s

Strip(s) == RStrip(LStrip(s))

\* dict.get(key, default)
Get(item, key, default) ==
    IF key \in DOMAIN item THEN item[key] ELSE default

\* max() of a non-empty list of integers
MaxOf(s) == CHOOSE m \in Elems(s) : \A x \in Elems(s) : x <= m

----------------------------------------------------------------------------
(* Inputs *)

MaxCorpusLen == 3

\* sample strings
EmptyStr == <<>>
BlankStr == <<" ">>
TextA == <<"a">>
TextB == <<"b">>
TextC == <<"c">>

\* values of the "content" key: null, "", " ", "a", "b"
ContentValues == {None, Some(EmptyStr), Some(BlankStr), Some(TextA), Some(TextB)}
\* values of the "doc_id" key
DocIdValues == {Some(1), Some(3)}
UrlU == <<"u">>

\* corpus records: JSON objects in which each of content, doc_id and url may
\* be absent
CorpusRecords ==
    {[doc_id |-> d] : d \in DocIdValues}
    \cup {[content |-> c] : c \in ContentValues}
    \cup {[content |-> c, doc_id |-> d] : c \in ContentValues, d \in DocIdValues}
    \cup {[content |-> c, doc_id |-> d, url |-> UrlU] :
            c \in {Some(TextA), Some(TextB)}, d \in DocIdValues}

----------------------------------------------------------------------------
(* VectorSearchEngine._load_and_filter_documents *)

\* line 44: "content" in item and item["content"] and item["content"].strip()
HasContent(item) ==
    /\ "content" \in DOMAIN item
    /\ item.content # None
    /\ item.content[1] # EmptyStr
    /\ Strip(item.content[1]) # EmptyStr

\* lines 43-50: the loop over data, from record i on
RECURSIVE LoadLoop(_, _, _, _, _, _)
LoadLoop(d, i, docs, ids, us, seen_content) ==
    IF i > Len(d) THEN <<docs, ids, us>>
    ELSE IF HasContent(d[i]) /\ d[i].content[1] \notin seen_content
         THEN LoadLoop(d, i + 1,
                       Append(docs, d[i].content[1]),
                       Append(ids, Get(d[i], "doc_id", None)),
                       Append(us, Get(d[i], "url", EmptyStr)),
                       seen_content \cup {d[i].content[1]})
         ELSE LoadLoop(d, i + 1, docs, ids, us, seen_content)

\* mutant: the seen_content test of line 46 is dropped
LoadWithoutDedup(d) ==
    LET kept == SelectSeq(d, HasContent) IN
    <<[i \in Pos(kept) |-> kept[i].content[1]],
      [i \in Pos(kept) |-> Get(kept[i], "doc_id", None)],
      [i \in Pos(kept) |-> Get(kept[i], "url", EmptyStr)]>>

\* _load_and_filter_documents (lines 33-52) on the array read from the file
LoadAndFilter(d) == LoadLoop(d, 1, <<>>, <<>>, <<>>, {})

----------------------------------------------------------------------------
(* The embedding provider and the similarity index (external libraries) *)

\* SentenceTransformer.encode of one text. The pretrained model is replaced
\* by a bag-of-characters embedding: one coordinate per character.
Alphabet == {" ", "a", "b", "c"}
Encode(t) == [c \in Alphabet |-> Cardinality({i \in Pos(t) : t[i] = c})]

\* encode of a batch
EncodeAll(ts) == [i \in Pos(ts) |-> Encode(ts[i])]

\* squared Euclidean distance (IndexFlatL2)
RECURSIVE SumSq(_, _, _)
SumSq(x, y, cs) ==
    IF cs = {} THEN 0
    ELSE LET c == CHOOSE c \in cs : TRUE
         IN (x[c] - y[c]) * (x[c] - y[c]) + SumSq(x, y, cs \ {c})

L2(x, y) == SumSq(x, y, Alphabet)

\* index.ntotal of an index that is set
NTotal(idx) == Len(idx[1])

\* the number of vectors stored, 0 when the index is unset
Stored(idx) == IF idx = None THEN 0 ELSE NTotal(idx)

\* the distance faiss reports for a padding entry
FltMax == 10 ^ 6

\* index.search(q, k): the k nearest positions (0-based) by distance, nearer
\* first and the lower position first among equals, padded with -1
Nearer(vs, q, i, j) ==
    \/ L2(vs[i], q) < L2(vs[j], q)
    \/ L2(vs[i], q) = L2(vs[j], q) /\ i < j

RankOf(vs, q, i) == 1 + Cardinality({j \in Pos(vs) : Nearer(vs, q, j, i)})
AtRank(vs, q, r) == CHOOSE i \in Pos(vs) : RankOf(vs, q, i) = r

SearchIndices(vs, q, k) ==
    [r \in 1..k |-> IF r <= Len(vs) THEN AtRank(vs, q, r) - 1 ELSE -1]
SearchDistances(vs, q, k) ==
    [r \in 1..k |-> IF r <= Len(vs) THEN L2(vs[AtRank(vs, q, r)], q) ELSE FltMax]

\* Python list indexing, with negative positions counted from the end
PyInRange(s, i) == -Len(s) <= i /\ i < Len(s)
PyAt(s, i) == IF i >= 0 THEN s[i + 1] ELSE s[Len(s) + i + 1]

----------------------------------------------------------------------------
(* VectorSearchEngine *)

MaxBuildLen == 2
MaxNew == 2
MaxVectors == 3
MaxK == 2

InsertTexts == {TextA, TextC}
Queries == {TextA, TextC}

NoCall == [op |-> "init", new_documents |-> <<>>, query |-> <<>>, k |-> 0,
           before |-> 0, exc |-> "", ret |-> <<>>]

\* __init__ (lines 27-30)
VseInit ==
    /\ index = None
    /\ documents = <<>>
    /\ urls = <<>>
    /\ document_ids = <<>>
    /\ last = NoCall

\* build_from_json (lines 54-70); raises: whether model.encode raises
BuildFromJson(d, raises) ==
    LET r == LoadAndFilter(d) IN
    /\ documents' = r[1]
    /\ document_ids' = r[2]
    /\ urls' = r[3]
    /\ index' = IF r[1] = <<>> \/ raises THEN index
                ELSE Some(EncodeAll(r[1]))
    /\ last' = [NoCall EXCEPT !.op = "build", !.before = Len(documents),
                   !.exc = IF r[1] # <<>> /\ raises THEN "encode" ELSE ""]

\* every order in which list(set(xs)) can come out
SetOrders(xs) ==
    {s \in [1..Cardinality(Elems(xs)) -> Elems(xs)] : NoDup(s)}

\* mutant: the membership test of line 85 is dropped
FilterNothing(docs, new) == new

\* line 85: [doc for doc in new_documents if doc not in self.documents]
FilterNew(docs, new) ==
    LET Fresh(doc) == ~InList(doc, docs) IN SelectSeq(new, Fresh)

\* lines 81-85: the lists filtered_docs can be
FilteredDocs(docs, new) ==
    IF docs = <<>> THEN SetOrders(new) ELSE {FilterNew(docs, new)}

\* mutant: ids continue from the number of ids, not from the largest id
StartIdFromLen(ids) == Len(ids)

\* line 100: max(self.document_ids) + 1 if self.document_ids else 0
StartId(ids) ==
    IF ids = <<>> THEN 0
    ELSE MaxOf([i \in Pos(ids) |-> ids[i][1]]) + 1

\* line 101
NewIds(ids, n) == [i \in 1..n |-> Some(StartId(ids) + (i - 1))]

\* line 100 raises TypeError when an id is None
MaxRaises(ids) == \E i \in Pos(ids) : ids[i] = None

\* mutant: the index is created (lines 94-95) before the texts are encoded
IndexCreatedBeforeEncode(st) ==
    [st EXCEPT !.exc = "encode",
               !.index = IF st.index = None THEN Some(<<>>) ELSE st.index]

\* line 92 raised: nothing before it changed the engine
AfterEncodeError(st) == [st EXCEPT !.exc = "encode"]

\* lines 87-104 on filtered_docs; st holds the engine's fields
InsertFiltered(st, filtered, raises) ==
    IF filtered = <<>> THEN st
    ELSE IF raises THEN AfterEncodeError(st)
    ELSE LET old == IF st.index = None THEN <<>> ELSE st.index[1]
             added == [st EXCEPT !.index = Some(old \o EncodeAll(filtered))]
         IN IF MaxRaises(st.document_ids)
            THEN [added EXCEPT !.exc = "TypeError"]
            ELSE [added EXCEPT
                    !.documents = st.documents \o filtered,
                    !.document_ids =
                        st.document_ids \o NewIds(st.document_ids, Len(filtered))]

EngineState ==
    [documents |-> documents, document_ids |-> document_ids, urls |-> urls,
     index |-> index, exc |-> ""]

\* insert (lines 75-106)
Insert(new, raises) ==
    \E filtered \in FilteredDocs(documents, new) :
        LET st == InsertFiltered(EngineState, filtered, raises) IN
        /\ Stored(st.index) <= MaxVectors
        /\ documents' = st.documents
        /\ document_ids' = st.document_ids
        /\ urls' = st.urls
        /\ index' = st.index
        /\ last' = [NoCall EXCEPT !.op = "insert", !.new_documents = new,
                       !.before = Len(documents), !.exc = st.exc]

\* line 115: self.index is None or self.index.ntotal == 0
IndexIsEmpty(idx) == idx = None \/ NTotal(idx) = 0

\* lines 123-134: the results for the neighbours from position r on
RECURSIVE Collect(_, _, _, _)
Collect(st, ind, dist, r) ==
    IF r > Len(ind) THEN [exc |-> "", ret |-> <<>>]
    ELSE IF ~(ind[r] < Len(st.documents)) THEN Collect(st, ind, dist, r + 1)
    ELSE IF ~(/\ PyInRange(st.document_ids, ind[r])
              /\ PyInRange(st.documents, ind[r])
              /\ PyInRange(st.urls, ind[r]))
         THEN [exc |-> "IndexError", ret |-> <<>>]
         ELSE LET rest == Collect(st, ind, dist, r + 1)
                  result == [id |-> PyAt(st.document_ids, ind[r]),
                             score |-> dist[r],
                             text |-> PyAt(st.documents, ind[r]),
                             url |-> PyAt(st.urls, ind[r])]
              IN IF rest.exc # "" THEN rest
                 ELSE [exc |-> "", ret |-> <<result>> \o rest.ret]

\* mutant: the guard of lines 115-117 is missing, so that an unset index is
\* searched
GetUnguarded(st, query, k) ==
    IF st.index = None THEN [exc |-> "AttributeError", ret |-> <<>>]
    ELSE Collect(st,
                 SearchIndices(st.index[1], Encode(query), k),
                 SearchDistances(st.index[1], Encode(query), k),
                 1)

\* get (lines 108-134): what it raises and what it returns
GetResult(st, query, k) ==
    IF IndexIsEmpty(st.index) THEN [exc |-> "", ret |-> <<>>]
    ELSE Collect(st,
                 SearchIndices(st.index[1], Encode(query), k),
                 SearchDistances(st.index[1], Encode(query), k),
                 1)

GetCall(query, k) ==
    LET r == GetResult(EngineState, query, k) IN
    /\ last' = [NoCall EXCEPT !.op = "get", !.query = query, !.k = k,
                   !.before = Len(documents), !.exc = r.exc, !.ret = r.ret]
    /\ UNCHANGED <<documents, document_ids, urls, index>>

\* the corpus files the engine is built from: a text with id and url, a text
\* with a larger id and no url, a text without doc_id, a blank text
BuildRecords ==
    {[content |-> Some(TextA), doc_id |-> Some(1), url |-> UrlU],
     [content |-> Some(TextB), doc_id |-> Some(3)],
     [content |-> Some(TextA)],
     [content |-> Some(BlankStr), doc_id |-> Some(1)]}
BuildCorpora == SeqsUpTo(BuildRecords, MaxBuildLen)
NewDocumentLists == SeqsUpTo(InsertTexts, MaxNew)

Build == \E d \in BuildCorpora, raises \in BOOLEAN : BuildFromJson(d, raises)
InsertNew == \E new \in NewDocumentLists, raises \in BOOLEAN : Insert(new, raises)
Query == \E q \in Queries, k \in 1..MaxK : GetCall(q, k)

----------------------------------------------------------------------------
(* NounSearchEngine *)

MaxNounCorpus == 2
MaxTopK == 2

\* A text is given by what nltk.pos_tag(nltk.word_tokenize(text)) yields for
\* it: a list of (word, tag) pairs. The empty list stands for "" or blanks.
Tok(w, t) == [word |-> w, tag |-> t]
WordDog == <<"d", "o", "g">>
WordDogCap == <<"D", "o", "g">>
WordCat == <<"c", "a", "t">>
WordRan == <<"r", "a", "n">>
WordX == <<"x">>

SentDog == <<Tok(WordDog, "NN")>>                          \* "dog"
SentDogCat == <<Tok(WordDogCap, "NNP"), Tok(WordCat, "NNS")>>  \* "Dog cat"
SentXRan == <<Tok(WordX, "NN"), Tok(WordRan, "VBD")>>      \* "x ran"
SentBlank == <<>>

\* values of the "content" key, and the queries
NounContents == {None, Some(SentBlank), Some(SentDog), Some(SentDogCat), Some(SentXRan)}
NounQueries == {SentDog, SentDogCat, SentXRan}
NounDocIds == {1, 2}

NounRecords ==
    {[doc_id |-> d, content |-> c] : d \in NounDocIds, c \in NounContents}
    \cup {[content |-> Some(SentDog)]}

\* str.lower(), character by character
LowerChar(c) == IF c = "D" THEN "d" ELSE c
Lower(w) == [i \in Pos(w) |-> LowerChar(w[i])]

\* line 66
noun_tags == {"NN", "NNS", "NNP", "NNPS"}

\* _extract_nouns (lines 54-71)
ExtractNouns(text) ==
    {Lower(text[i].word) :
        i \in {j \in Pos(text) : text[j].tag \in noun_tags /\ Len(text[j].word) > 1}}

\* dict[key] = value
DictPut(dict, key, value) ==
    [x \in DOMAIN dict \cup {key} |-> IF x = key THEN value ELSE dict[x]]

\* lines 96-97: self.inverted_index[noun].add(doc_id) for every noun
AddPostings(inv, nouns, doc_id) ==
    [n \in DOMAIN inv \cup nouns |->
        IF n \in nouns
        THEN (IF n \in DOMAIN inv THEN inv[n] ELSE {}) \cup {doc_id}
        ELSE inv[n]]

\* lines 84-97: the loop over data, from record i on
RECURSIVE BuildLoop(_, _, _, _)
BuildLoop(d, i, docs, inv) ==
    IF i > Len(d) THEN [documents |-> docs, inverted_index |-> inv]
    ELSE LET item == d[i] IN
         IF ~("doc_id" \in DOMAIN item /\ "content" \in DOMAIN item)
         THEN BuildLoop(d, i + 1, docs, inv)
         ELSE IF item.content = None \/ item.content[1] = SentBlank
         THEN BuildLoop(d, i + 1, docs, inv)
         ELSE BuildLoop(d, i + 1,
                        DictPut(docs, item.doc_id, item.content[1]),
                        AddPostings(inv, ExtractNouns(item.content[1]), item.doc_id))

\* _build_index (lines 73-99) on the array read from the file
BuildIndex(d) == BuildLoop(d, 1, <<>>, <<>>)

\* lines 119-123: doc_scores
DocScores(inv, query_nouns) ==
    LET hit == UNION {inv[n] : n \in query_nouns \cap DOMAIN inv} IN
    [doc_id \in hit |->
        Cardinality({n \in query_nouns \cap DOMAIN inv : doc_id \in inv[n]})]

\* line 127: the orders sorted(..., reverse=True) can produce; the order among
\* equal scores follows set iteration order
SortedDocs(scores) ==
    {s \in [1..Cardinality(DOMAIN scores) -> DOMAIN scores] :
        /\ NoDup(s)
        /\ \A i, j \in Pos(s) : i < j => scores[s[i]] >= scores[s[j]]}

\* the string returned for an id that self.documents lacks (line 135)
ContentLost == <<Tok(<<"?">>, "LOST")>>

\* lines 130-136: sorted_docs[:top_k] as results
Results(docs, scores, sorted_docs, top_k) ==
    [r \in 1..(IF top_k < Len(sorted_docs) THEN top_k ELSE Len(sorted_docs)) |->
        [id |-> sorted_docs[r],
         score |-> scores[sorted_docs[r]],
         content |-> IF sorted_docs[r] \in DOMAIN docs
                     THEN docs[sorted_docs[r]] ELSE ContentLost]]

NoSearch == [called |-> FALSE, query |-> <<>>, top_k |-> 0, ret |-> <<>>]

\* __init__ (lines 38-52) on a corpus file
NounInit ==
    /\ corpus \in SeqsUpTo(NounRecords, MaxNounCorpus)
    /\ ndocs = BuildIndex(corpus).documents
    /\ inverted_index = BuildIndex(corpus).inverted_index
    /\ nlast = NoSearch

\* search (lines 101-138)
Search(query, top_k) ==
    LET query_nouns == ExtractNouns(query)
        scores == DocScores(inverted_index, query_nouns)
    IN /\ \E sorted_docs \in SortedDocs(scores) :
             nlast' = [called |-> TRUE, query |-> query, top_k |-> top_k,
                       ret |-> IF query_nouns = {} THEN <<>>
                               ELSE Results(ndocs, scores, sorted_docs, top_k)]
       /\ UNCHANGED <<corpus, ndocs, inverted_index>>

SearchAny == \E q \in NounQueries, top_k \in 0..MaxTopK : Search(q, top_k)

----------------------------------------------------------------------------
(* process_pdf *)

MaxPages == 3

\* the name of the PDF without its extension (line 169)
DocName == <<"d">>

\* What inference yields for a page: extract_with_local_vlm raises, or it
\* returns text that parses (possibly after repair) into the given list, or
\* the given text, which cannot be parsed at all. A list element is a dict,
\* given by its "type", or something that is no dict ("notdict").
PageRaises == [raises |-> TRUE, parses |-> FALSE, elems |-> <<>>, text |-> <<>>]
PageGarbage(t) == [raises |-> FALSE, parses |-> FALSE, elems |-> <<>>, text |-> t]
PageList(es) == [raises |-> FALSE, parses |-> TRUE, elems |-> es, text |-> <<>>]

\* model output that holds no JSON: " no" and "no [x "
TextNo == <<" ", "n", "o">>
TextNoList == <<"n", "o", " ", "[", "x", " ">>

PageOutcomes ==
    {PageRaises,
     PageGarbage(TextNo),
     PageGarbage(TextNoList),
     PageList(<<>>),
     PageList(<<"text">>),
     PageList(<<"header", "table">>),
     PageList(<<"text", "notdict">>)}

\* lines 141-143: text[start_idx:] from the first '[', the whole text when
\* there is none
RECURSIVE FromFirstBracket(_, _)
FromFirstBracket(t, rest) ==
    IF rest = <<>> THEN t
    ELSE IF Head(rest) = "[" THEN rest
    ELSE FromFirstBracket(t, Tail(rest))

\* lines 131-143: the text that is handed to the JSON parsers, for text in
\* which the pattern of line 135 finds nothing
TextToParse(t) == FromFirstBracket(Strip(t), Strip(t))

\* lines 162-166: the error object, which keeps the text that failed to parse
ErrorItem(raw) ==
    [type |-> "error_parsing", content |-> "JSON Parsing Failed",
     raw_content |-> raw]

\* parse_json_output (lines 125-166): the list for parsed text, the error
\* object for text that neither json nor json_repair can read
ParseJsonOutput(page) ==
    IF page.parses THEN [i \in Pos(page.elems) |-> [type |-> page.elems[i]]]
    ELSE <<ErrorItem(TextToParse(page.text))>>

\* lines 203, 209: x.get('type') raises AttributeError on what is no dict
GetRaises(items) == \E i \in Pos(items) : items[i].type = "notdict"

\* lines 207-215: the loop over extracted_items, from item i on
RECURSIVE MetaLoop(_, _, _, _, _)
MetaLoop(items, i, idx, page, out) ==
    IF i > Len(items) THEN [items |-> out, idx |-> idx]
    ELSE LET item == items[i]
             meta == [doc_id |-> DocName, page |-> page]
             tagged == [k \in DOMAIN item \cup DOMAIN meta |->
                          IF k \in DOMAIN meta THEN meta[k] ELSE item[k]]
         IN IF item.type # "error_parsing"
            THEN MetaLoop(items, i + 1, idx + 1, page,
                          Append(out, [k \in DOMAIN tagged \cup {"id"} |->
                                         IF k = "id" THEN idx ELSE tagged[k]]))
            ELSE MetaLoop(items, i + 1, idx, page, Append(out, tagged))

\* mutant: the id counter starts again on every page
AddMetadataPerPage(items, idx, page) == MetaLoop(items, 1, 0, page, <<>>)

\* lines 207-215: the items with their metadata, and the counter afterwards
AddMetadata(items, idx, page) == MetaLoop(items, 1, idx, page, <<>>)

\* lines 185-186, for a PDF of up to MaxPages pages
PdfInit ==
    /\ pages \in SeqsUpTo(PageOutcomes, MaxPages)
    /\ page_num = 0
    /\ all_data = <<>>
    /\ global_idx = 0
    /\ written = None

\* lines 188-220: one iteration of the loop over the pages
ProcessPage ==
    /\ written = None
    /\ page_num < Len(pages)
    /\ page_num' = page_num + 1
    /\ LET page == pages[page_num + 1]
           extracted_items == ParseJsonOutput(page)
           done == AddMetadata(extracted_items, global_idx, page_num + 1)
       IN IF page.raises \/ extracted_items = <<>> \/ GetRaises(extracted_items)
          THEN UNCHANGED <<all_data, global_idx>>
          ELSE /\ all_data' = all_data \o done.items
               /\ global_idx' = done.idx
    /\ UNCHANGED <<pages, written>>

\* lines 225-226: json.dump(all_data, f)
WriteOutput ==
    /\ written = None
    /\ page_num = Len(pages)
    /\ written' = Some(all_data)
    /\ UNCHANGED <<pages, page_num, all_data, global_idx>>

----------------------------------------------------------------------------
(* Specifications *)

\* the components a specification does not exercise stay as constructed
LoadIdle == data = <<>> /\ loaded = None
NounIdle ==
    /\ corpus = <<>>
    /\ ndocs = <<>>
    /\ inverted_index = <<>>
    /\ nlast = NoSearch
PdfIdle ==
    /\ pages = <<>>
    /\ page_num = 0
    /\ all_data = <<>>
    /\ global_idx = 0
    /\ written = None

\* the vector search engine under any sequence of calls
Init == VseInit /\ LoadIdle /\ NounIdle /\ PdfIdle
Next ==
    \/ Build /\ UNCHANGED <<loadVars, nounVars, pdfVars>>
    \/ InsertNew /\ UNCHANGED <<loadVars, nounVars, pdfVars>>
    \/ Query /\ UNCHANGED <<loadVars, nounVars, pdfVars>>
Spec == Init /\ [][Next]_vars

\* _load_and_filter_documents applied to one input file
InitLoad ==
    /\ data \in SeqsUpTo(CorpusRecords, MaxCorpusLen)
    /\ loaded = None
    /\ VseInit /\ NounIdle /\ PdfIdle
Load ==
    /\ loaded = None
    /\ loaded' = Some(LoadAndFilter(data))
    /\ UNCHANGED <<data, vseVars, nounVars, pdfVars>>
NextLoad == Load
SpecLoad == InitLoad /\ [][NextLoad]_vars

\* a noun search engine constructed from a corpus, under any searches
InitNoun == NounInit /\ VseInit /\ LoadIdle /\ PdfIdle
NextNoun == SearchAny /\ UNCHANGED <<vseVars, loadVars, pdfVars>>
SpecNoun == InitNoun /\ [][NextNoun]_vars

\* process_pdf on one PDF
InitPdf == PdfInit /\ VseInit /\ LoadIdle /\ NounIdle
NextPdf ==
    \/ ProcessPage /\ UNCHANGED <<vseVars, loadVars, nounVars>>
    \/ WriteOutput /\ UNCHANGED <<vseVars, loadVars, nounVars>>
SpecPdf == InitPdf /\ [][NextPdf]_vars

----------------------------------------------------------------------------
(* Claims about VectorSearchEngine *)

\* C1: after any sequence of build_from_json and insert calls, the number of
\* registry entries equals the number of vectors stored in the index (0 when
\* the index is unset).
C1_RegistryMatchesIndex == Len(documents) = Stored(index)

\* C2: insert never decreases the registry length, and never appends a text
\* that was in the registry before the call.
C2_InsertAddsOnlyNewTexts ==
    [][last'.op = "insert" =>
         /\ Len(documents') >= Len(documents)
         /\ SubSeq(documents', 1, Len(documents)) = documents
         /\ \A i \in (Len(documents) + 1)..Len(documents') :
               \A j \in Pos(documents) : documents'[i] # documents[j]]_vars

\* registry ["a", "b"], insert(["c", "a"]) appended exactly "c"
C2_Witness ==
    /\ last.op = "insert"
    /\ last.new_documents = <<TextC, TextA>>
    /\ last.before = 2
    /\ documents = <<TextA, TextB, TextC>>

\* C3: an insert that adds n >= 1 texts appends the ids max(prev)+1, ...,
\* max(prev)+n (0, ..., n-1 when prev is empty), each greater than every id
\* of prev.
C3_NewIdsContiguousAboveMax ==
    [][(last'.op = "insert" /\ Len(documents') > Len(documents)) =>
         LET prev == document_ids
             n == Len(documents') - Len(documents)
         IN /\ Len(document_ids') = Len(prev) + n
            /\ SubSeq(document_ids', 1, Len(prev)) = prev
            /\ (prev = <<>> =>
                  \A j \in 1..n : document_ids'[j] = Some(j - 1))
            /\ (prev # <<>> =>
                  \E m \in {prev[i][1] : i \in Pos(prev)} :
                     /\ \A i \in Pos(prev) : prev[i][1] <= m
                     /\ \A j \in 1..n :
                           document_ids'[Len(prev) + j] = Some(m + j))
            /\ \A j \in 1..n : \A i \in Pos(prev) :
                  document_ids'[Len(prev) + j][1] > prev[i][1]]_vars

\* ids [3], insert of two new texts appended the ids 4 and 5
C3_Witness ==
    /\ last.op = "insert"
    /\ last.before = 1
    /\ Len(last.new_documents) = 2
    /\ document_ids = <<Some(3), Some(4), Some(5)>>

\* C4: get on an engine whose index is unset or holds no vector returns an
\* empty list and raises nothing.
C4_GetOnEmptyIndex ==
    (last.op = "get" /\ Stored(index) = 0) =>
        (last.exc = "" /\ last.ret = <<>>)

\* get was called while the index was unset
C4_Witness == last.op = "get" /\ index = None /\ last.ret = <<>>

\* C6: build_from_json on a corpus whose filtered list is empty returns
\* without raising and leaves the index unset.
C6_EmptyBuildLeavesIndexUnset ==
    (last.op = "build" /\ documents = <<>>) =>
        (last.exc = "" /\ index = None)

\* C7: an insert whose embedding call raises leaves documents, document_ids,
\* urls and the index as they were.
C7_EncodeErrorChangesNothing ==
    [][(last'.op = "insert" /\ last'.exc = "encode") =>
         UNCHANGED <<documents, document_ids, urls, index>>]_vars

\* the embedding call of an insert raised, on an engine that holds documents
C7_Witness ==
    /\ last.op = "insert"
    /\ last.exc = "encode"
    /\ documents # <<>>

\* a is b with some elements left out: the elements of a appear in b in the
\* same order
RECURSIVE IsSubsequence(_, _)
IsSubsequence(a, b) ==
    IF a = <<>> THEN TRUE
    ELSE IF b = <<>> THEN FALSE
    ELSE IF Head(a) = Head(b) THEN IsSubsequence(Tail(a), Tail(b))
    ELSE IsSubsequence(a, Tail(b))

\* C11: on an empty as well as on a non-empty registry, insert appends the
\* texts it retains in the order they have in the input list, and the j-th of
\* them (0-based) receives the id start_id + j.
C11_InsertKeepsInputOrder ==
    (last.op = "insert" /\ Len(documents) > last.before) =>
        LET appended == SubSeq(documents, last.before + 1, Len(documents))
            prev == SubSeq(document_ids, 1, last.before)
            start_id == IF prev = <<>> THEN 0
                        ELSE 1 + CHOOSE m \in {prev[i][1] : i \in Pos(prev)} :
                                    \A i \in Pos(prev) : prev[i][1] <= m
        IN /\ IsSubsequence(appended, last.new_documents)
           /\ Len(document_ids) = Len(documents)
           /\ \A j \in Pos(appended) :
                 document_ids[last.before + j] = Some(start_id + (j - 1))

\* C12: documents, document_ids and urls have the same length, so that get
\* returns a result for any stored vector without raising.
C12_RegistryHoldsCompleteTriples ==
    /\ Len(documents) = Len(document_ids)
    /\ Len(documents) = Len(urls)
    /\ last.op = "get" => last.exc = ""

\* C13: after any sequence of build_from_json and insert calls the registry
\* holds no text twice.
C13_RegistryHasNoDuplicateText == NoDup(documents)

\* C14: get returns at most min(k, n) results for n stored vectors, none of
\* them for a padding entry of the index and no registry entry twice.
C14_GetReportsStoredNeighboursOnce ==
    (last.op = "get" /\ last.exc = "") =>
        LET ret == last.ret
            n == Stored(index)
        IN /\ Len(ret) <= (IF last.k < n THEN last.k ELSE n)
           /\ \A r \in Pos(ret) : ret[r].score # FltMax
           /\ \A r, t \in Pos(ret) :
                 r # t => <<ret[r].id, ret[r].text>> # <<ret[t].id, ret[t].text>>

----------------------------------------------------------------------------
(* Claims about _load_and_filter_documents *)

\* a record has content that is not empty: the key is there, the value is a
\* string, and some character of it is not whitespace
NonEmptyContent(item) ==
    /\ "content" \in DOMAIN item
    /\ Len(item.content) = 1
    /\ \E i \in Pos(item.content[1]) : item.content[1][i] \notin Whitespace

\* the positions of data that hold the first occurrence of a non-empty content
FirstOccurrences(d) ==
    {i \in Pos(d) :
        /\ NonEmptyContent(d[i])
        /\ \A j \in 1..(i - 1) :
              NonEmptyContent(d[j]) => d[j].content # d[i].content}

\* the r-th smallest element of a set of positions
NthOf(S, r) == CHOOSE i \in S : Cardinality({j \in S : j < i}) = r - 1

\* C5: the three lists returned have the same length and hold, in input
\* order, the content, doc_id and url ('' if absent) of the first occurrences
\* of the records with non-empty content; the text list has no duplicates.
C5_LoadKeepsFirstOccurrences ==
    loaded # None =>
        LET docs == loaded[1][1]
            ids == loaded[1][2]
            us == loaded[1][3]
            keep == FirstOccurrences(data)
        IN /\ Len(docs) = Cardinality(keep)
           /\ Len(ids) = Len(docs)
           /\ Len(us) = Len(docs)
           /\ NoDup(docs)
           /\ \A r \in Pos(docs) :
                 LET item == data[NthOf(keep, r)] IN
                 /\ docs[r] = item.content[1]
                 /\ ids[r] = (IF "doc_id" \in DOMAIN item THEN item.doc_id ELSE None)
                 /\ us[r] = (IF "url" \in DOMAIN item THEN item.url ELSE EmptyStr)

\* [a/1, a/3, b/3] was loaded as texts [a, b] with ids [1, 3]
C5_Witness ==
    /\ loaded # None
    /\ data = <<[content |-> Some(TextA), doc_id |-> Some(1)],
                [content |-> Some(TextA), doc_id |-> Some(3)],
                [content |-> Some(TextB), doc_id |-> Some(3)]>>
    /\ loaded[1][1] = <<TextA, TextB>>
    /\ loaded[1][2] = <<Some(1), Some(3)>>

----------------------------------------------------------------------------
(* Claims about NounSearchEngine *)

\* the nouns the query shares with a text
SharedNouns(query, text) == ExtractNouns(query) \cap ExtractNouns(text)

\* C8: the score reported for a returned document equals the number of nouns
\* shared by the query and the content returned for that document id.
C8_ScoreCountsSharedNouns ==
    nlast.called =>
        \A r \in Pos(nlast.ret) :
            nlast.ret[r].score =
                Cardinality(SharedNouns(nlast.query, nlast.ret[r].content))

\* C9: search returns at most top_k results in non-increasing score order,
\* every returned document has score >= 1 and shares a noun with the query,
\* and no document outside the result has a higher score than a returned one.
C9_TopKByScore ==
    nlast.called =>
        LET ret == nlast.ret
            returned == {ret[r].id : r \in Pos(ret)}
        IN /\ Len(ret) <= nlast.top_k
           /\ \A i, j \in Pos(ret) : i < j => ret[i].score >= ret[j].score
           /\ \A r \in Pos(ret) : ret[r].score >= 1
           /\ \A r \in Pos(ret) : SharedNouns(nlast.query, ret[r].content) # {}
           /\ \A d \in DOMAIN ndocs \ returned : \A r \in Pos(ret) :
                 Cardinality(SharedNouns(nlast.query, ndocs[d])) <= ret[r].score

----------------------------------------------------------------------------
(* Claims about process_pdf *)

\* C10: in the array written for a PDF, the items that are not of type
\* error_parsing carry the ids 0, 1, 2, ... in output order, which follows
\* the pages; items of type error_parsing carry no id; a page whose inference
\* raised has no item in the array.
C10_IdsConsecutiveAcrossPages ==
    written # None =>
        LET out == written[1]
            IsValid(item) == item.type # "error_parsing"
            valid == SelectSeq(out, IsValid)
        IN /\ \A i \in Pos(valid) :
                 "id" \in DOMAIN valid[i] /\ valid[i].id = i - 1
           /\ \A i \in Pos(out) : ~IsValid(out[i]) => "id" \notin DOMAIN out[i]
           /\ \A i, j \in Pos(out) : i < j => out[i].page <= out[j].page
           /\ \A p \in Pos(pages) :
                 pages[p].raises => \A i \in Pos(out) : out[i].page # p

\* a PDF whose second page failed inference was written with id 0 on page 1
\* and ids 1 and 2 on page 3
C10_Witness ==
    /\ written # None
    /\ Len(pages) >= 3
    /\ ~pages[1].raises /\ pages[1].parses /\ pages[1].elems = <<"text">>
    /\ pages[2].raises
    /\ pages[3] = PageList(<<"header", "table">>)
    /\ Len(written[1]) = 3
    /\ written[1][3].id = 2

====
